---------------------------- MODULE Spec2Model ----------------------------
(***************************************************************************)
(* State-machine model of the editable field bindings of solid-ui-react:   *)
(* the Text component (src/src/components/text/index.tsx) and the Video    *)
(* component exercised by src/unnamed/part_000.                            *)
(*                                                                         *)
(* Strings are encoded by index: 0 is the empty string "", 1..MaxVal are   *)
(* distinct non-empty strings, and NULL stands for null/undefined.         *)
(***************************************************************************)
EXTENDS Integers, Sequences, FiniteSets, TLC

MaxVal == 1      \* number of distinct non-empty strings a user can type
MaxPending == 2  \* saveSolidDatasetAt (or overwriteFile) calls in flight at once
MaxFileSize == 1 \* largest size of a file the user can select

NULL == -1
NoUrl == "none"          \* an absent Url (saveDatasetTo undefined, no resource info)
NoLocale == "none"       \* locale prop undefined

Strings == 0..MaxVal                 \* what e.target.value can be
Stored == {NULL} \cup (1..MaxVal)    \* what the property holds in the pod

VARIABLES
  props,         \* edit, autosave, saveDatasetTo, locale, onSave/onError supplied
  thing,         \* useProperty().thing
  dataset,       \* useProperty().dataset, replaced by setDataset
  text,          \* useState text
  initialValue,  \* useState initialValue
  phase,         \* "mounted" | "unmounted" | "crashed" (a render has thrown)
  focused,       \* the input element has the focus
  pending,       \* the saveSolidDatasetAt calls in flight, oldest first
  out            \* what the last event did: writer calls, callbacks, throws

textVars == <<props, thing, dataset, text, initialValue, phase, focused,
              pending, out>>

\* The Video component
VARIABLES
  vprops,        \* edit, autosave, maxSize, onSave/onError supplied
  vvalue,        \* the url the property resolves to, or NULL
  vload,         \* the first getFile: "none" | "loading" | "loaded" | "failed"
  vsrc,          \* the src attribute of the video element
  vpending,      \* the files of the overwriteFile calls in flight, oldest first
  vout           \* what the last event did

videoVars == <<vprops, vvalue, vload, vsrc, vpending, vout>>

vars == <<textVars, videoVars>>

----------------------------------------------------------------------------
(* Data objects *)

NoThing == [exists |-> FALSE, val |-> NULL, lang |-> NoLocale]

NoDataset == [exists |-> FALSE, val |-> NULL, lang |-> NoLocale, src |-> NoUrl]

\* The calls an event makes, in order, each as a record of one shape.
WriterCall(url, d) ==
  [fn |-> "saveSolidDatasetAt", url |-> url, ds |-> d, thing |-> NoThing,
   err |-> "none"]

SetDatasetCall(d) ==
  [fn |-> "setDataset", url |-> NoUrl, ds |-> d, thing |-> NoThing,
   err |-> "none"]

OnSaveCall(d, t) ==
  [fn |-> "onSave", url |-> NoUrl, ds |-> d, thing |-> t, err |-> "none"]

OnErrorCall(e) ==
  [fn |-> "onError", url |-> NoUrl, ds |-> NoDataset, thing |-> NoThing,
   err |-> e]

\* The calls of function fn among calls.
CallsOf(calls, fn) == SelectSeq(calls, LAMBDA c : c.fn = fn)

\* An event that called nothing.
Quiet(kind) == [kind |-> kind, calls |-> <<>>, threw |-> FALSE]

\* useProperty's getter for type "string": the literal stored for the property,
\* read with the locale the component was given.
Getter(t, loc) == IF t.exists /\ t.lang = loc THEN t.val ELSE NULL

\* useProperty: the error it reports for a missing thing or a missing value.
ResolutionError(t, loc) ==
  IF ~t.exists THEN "no thing"
  ELSE IF Getter(t, loc) = NULL THEN "no value"
  ELSE "none"

\* value: what useProperty resolves for the current thing.
Value == Getter(thing, props.locale)

\* setStringWithLocale / setStringNoLocale: a new thing carrying newValue.
UpdatedResource(loc, newValue) ==
  [exists |-> TRUE, val |-> newValue, lang |-> loc]

\* setThing(dataset, updatedResource)
SetThing(d, t) == [d EXCEPT !.val = t.val, !.lang = t.lang]

\* hasResourceInfo(dataset) / getSourceUrl(dataset)
HasResourceInfo(d) == d.src # NoUrl

GetSourceUrl(d) == d.src

\* What saveSolidDatasetAt(url, d) resolves to: d as stored at url.
SavedDataset(url, d) == [d EXCEPT !.src = url]


----------------------------------------------------------------------------
(* Rendering *)

\* value={text || ""}: what the input element holds, hence e.target.value of
\* its focus and blur events.
InputValue == IF text = NULL \/ text = 0 THEN 0 ELSE text

\* The element the component returns.
Rendered ==
  IF phase # "mounted" THEN [kind |-> "nothing", content |-> NULL]
  ELSE IF ~dataset.exists /\ ~thing.exists
    THEN [kind |-> "placeholder", content |-> NULL]
  ELSE IF ~props.edit /\ dataset.exists /\ thing.exists
    THEN [kind |-> "span", content |-> text]
  ELSE IF props.edit /\ dataset.exists /\ thing.exists
    THEN [kind |-> "input", content |-> InputValue]
  ELSE [kind |-> "empty", content |-> NULL]

\* useEffect(() => { if (error && onError) onError(error) }, [error, onError]):
\* the calls of the effect after a render that resolved another error.
ErrorEffect(error, onError) ==
  IF error # "none" /\ onError THEN <<OnErrorCall(error)>> ELSE <<>>

----------------------------------------------------------------------------
(* saveHandler *)

\* saveGuard without its comparison with initialValue.
saveGuardNoCompare(e) == thing.exists /\ dataset.exists

\* if (initialValue !== e.target.value && thing && dataset)
\* saveGuard that lets no save begin while another is in flight.
saveGuardOneAtATime(e) ==
  pending = <<>> /\ initialValue # e /\ thing.exists /\ dataset.exists

saveGuard(e) == initialValue # e /\ thing.exists /\ dataset.exists

\* const newValue = e.target.value, and the updatedResource built from it.
Updated(e) == UpdatedResource(props.locale, e)

\* saveHandler with `if (hasResourceInfo(dataset))` for `else if`: both writes
\* are made when both destinations exist.
saveHandlerBothBranches(e) ==
  IF ~saveGuard(e) THEN Quiet("blur")
  ELSE [Quiet("blur") EXCEPT
          !.threw = props.saveDatasetTo = NoUrl /\ ~HasResourceInfo(dataset),
          !.calls =
            (IF props.saveDatasetTo # NoUrl
             THEN <<WriterCall(props.saveDatasetTo,
                               SetThing(dataset, Updated(e)))>>
             ELSE <<>>) \o
            (IF HasResourceInfo(dataset)
             THEN <<WriterCall(GetSourceUrl(dataset),
                               SetThing(dataset, Updated(e)))>>
             ELSE <<>>)]

\* saveHandler with a plain `throw` for setErrorState's updater: the catch
\* block gets the error.
saveHandlerPlainThrow(e) ==
  IF ~saveGuard(e) THEN Quiet("blur")
  ELSE IF props.saveDatasetTo # NoUrl
    THEN [Quiet("blur") EXCEPT
            !.calls = <<WriterCall(props.saveDatasetTo,
                                   SetThing(dataset, Updated(e)))>>]
  ELSE IF HasResourceInfo(dataset)
    THEN [Quiet("blur") EXCEPT
            !.calls = <<WriterCall(GetSourceUrl(dataset),
                                   SetThing(dataset, Updated(e)))>>]
  ELSE [Quiet("blur") EXCEPT
          !.calls = IF props.onError
                    THEN <<OnErrorCall("no destination")>>
                    ELSE <<>>]

\* The body of saveHandler up to its await, as what the event did. Without a
\* destination nothing is awaited: setErrorState's updater throws in the next
\* render, outside the try block, and the handler goes on to
\* `if (onSave) onSave(savedDataset, updatedResource)`, savedDataset undefined.
saveHandler(e) ==
  IF ~saveGuard(e) THEN Quiet("blur")
  ELSE IF props.saveDatasetTo # NoUrl
    THEN [Quiet("blur") EXCEPT
            !.calls = <<WriterCall(props.saveDatasetTo,
                                   SetThing(dataset, Updated(e)))>>]
  ELSE IF HasResourceInfo(dataset)
    THEN [Quiet("blur") EXCEPT
            !.calls = <<WriterCall(GetSourceUrl(dataset),
                                   SetThing(dataset, Updated(e)))>>]
  ELSE [Quiet("blur") EXCEPT
          !.threw = TRUE,
          !.calls = IF props.onSave
                    THEN <<OnSaveCall(NoDataset, Updated(e))>>
                    ELSE <<>>]

\* The saveHandler runs suspended at their await by an event's writer calls,
\* each with the updatedResource it holds.
Awaiting(calls, e) ==
  [k \in 1..Len(CallsOf(calls, "saveSolidDatasetAt")) |->
     [url |-> CallsOf(calls, "saveSolidDatasetAt")[k].url,
      ds |-> CallsOf(calls, "saveSolidDatasetAt")[k].ds,
      updated |-> Updated(e)]]

\* The rest of the try block after the await of r is fulfilled with saved, on
\* st = [dataset, calls]:
\*   setDataset(savedDataset); if (onSave) onSave(savedDataset, updatedResource)
SetDatasetStep(st, saved) ==
  [st EXCEPT !.dataset = saved, !.calls = Append(@, SetDatasetCall(saved))]

OnSaveStep(st, r, saved, onSave) ==
  IF onSave
  THEN [st EXCEPT !.calls = Append(@, OnSaveCall(saved, r.updated))]
  ELSE st

\* AfterSave with onSave called before setDataset.
AfterSaveCallbackFirst(st, r, saved, onSave) ==
  SetDatasetStep(OnSaveStep(st, r, saved, onSave), saved)

AfterSave(st, r, saved, onSave) ==
  OnSaveStep(SetDatasetStep(st, saved), r, saved, onSave)

\* CatchSaveError with the onSave call placed after the try statement, where
\* it also runs once the catch block has.
CatchSaveErrorThenOnSave(st, onError) ==
  [st EXCEPT !.calls =
     (IF onError THEN Append(@, OnErrorCall("save error")) ELSE @)
       \o <<OnSaveCall(NoDataset, NoThing)>>]

\* CatchSaveError that calls the writer again with the dataset at hand.
CatchSaveErrorAndRetry(st, onError) ==
  [st EXCEPT !.calls =
     (IF onError THEN Append(@, OnErrorCall("save error")) ELSE @)
       \o <<WriterCall(GetSourceUrl(st.dataset), st.dataset)>>]

\* catch (saveError) { if (onError) onError(saveError) }
CatchSaveError(st, onError) ==
  IF onError THEN [st EXCEPT !.calls = Append(@, OnErrorCall("save error"))]
  ELSE st

\* s without its i-th element.
Without(s, i) == SubSeq(s, 1, i - 1) \o SubSeq(s, i + 1, Len(s))

----------------------------------------------------------------------------
(* Events *)

\* onFocus={(e) => setInitialValue(e.target.value)}
Focus ==
  /\ Rendered.kind = "input"
  /\ ~focused
  /\ focused' = TRUE
  /\ initialValue' = InputValue
  /\ out' = Quiet("focus")
  /\ UNCHANGED <<props, thing, dataset, text, phase, pending>>
  /\ UNCHANGED videoVars

\* An onChange that also takes the snapshot: setInitialValue(e.target.value).
ChangeAndSnapshot(v) ==
  /\ Rendered.kind = "input"
  /\ focused
  /\ text' = v
  /\ initialValue' = v
  /\ out' = Quiet("change")
  /\ UNCHANGED <<props, thing, dataset, phase, focused, pending>>
  /\ UNCHANGED videoVars

\* onChange={(e) => setText(e.target.value)}
Change(v) ==
  /\ Rendered.kind = "input"
  /\ focused
  /\ text' = v
  /\ out' = Quiet("change")
  /\ UNCHANGED <<props, thing, dataset, initialValue, phase, focused, pending>>
  /\ UNCHANGED videoVars

\* onBlur={(e) => autosave && saveHandler(e)}. A render that throws takes the
\* component, and its useState cells, out of the tree.
onBlurAlways(e) == saveHandler(e)

onBlur(e) == IF props.autosave THEN saveHandler(e) ELSE Quiet("blur")

Blur ==
  /\ Rendered.kind = "input"
  /\ focused
  /\ focused' = FALSE
  /\ LET did == onBlur(InputValue)
         awaiting == Awaiting(did.calls, InputValue)
     IN  /\ Len(pending) + Len(awaiting) <= MaxPending
         /\ out' = did
         /\ pending' = pending \o awaiting
         /\ phase' = IF did.threw THEN "crashed" ELSE phase
         /\ text' = IF did.threw THEN NULL ELSE text
         /\ initialValue' = IF did.threw THEN NULL ELSE initialValue
  /\ UNCHANGED <<props, thing, dataset>>
  /\ UNCHANGED videoVars

\* The promise of the i-th saveSolidDatasetAt call in flight is fulfilled.
Resolve(i) ==
  /\ i \in 1..Len(pending)
  /\ LET r == pending[i]
         st == AfterSave([dataset |-> dataset, calls |-> <<>>], r,
                         SavedDataset(r.url, r.ds), props.onSave)
     IN  /\ dataset' = st.dataset
         /\ out' = [Quiet("resolved") EXCEPT !.calls = st.calls]
  /\ pending' = Without(pending, i)
  /\ UNCHANGED <<props, thing, text, initialValue, phase, focused>>
  /\ UNCHANGED videoVars

\* The promise of the i-th saveSolidDatasetAt call in flight is rejected.
Reject(i) ==
  /\ i \in 1..Len(pending)
  /\ LET st == CatchSaveError([dataset |-> dataset, calls |-> <<>>],
                              props.onError)
     IN  /\ dataset' = st.dataset
         /\ out' = [Quiet("rejected") EXCEPT !.calls = st.calls]
  /\ pending' = Without(pending, i)
  /\ UNCHANGED <<props, thing, text, initialValue, phase, focused>>
  /\ UNCHANGED videoVars

\* The parent renders the component again with another edit flag. An input
\* that leaves the tree loses the focus without a blur event.
ToggleEdit ==
  /\ phase = "mounted"
  /\ props' = [props EXCEPT !.edit = ~@]
  /\ focused' = FALSE
  /\ out' = Quiet("other")
  /\ UNCHANGED <<thing, dataset, text, initialValue, phase, pending>>
  /\ UNCHANGED videoVars

\* The things and datasets a parent or context can supply for locale loc.
Things(loc) ==
  {NoThing} \cup {[exists |-> TRUE, val |-> v, lang |-> loc] : v \in Stored}

Datasets(t) ==
  {NoDataset} \cup
  {[exists |-> TRUE, val |-> t.val, lang |-> t.lang, src |-> u] :
     u \in {NoUrl, "pod"}}

\* The first render and every later one with another error run the effect.
Rendering(kind, t, onError) ==
  [Quiet(kind) EXCEPT
     !.calls = ErrorEffect(ResolutionError(t, props.locale), onError)]

\* The parent or the context supplies another thing (the data has loaded, or
\* the property's value has changed), and a dataset where there was none: the
\* component renders again and its error effect runs.
Rerender(t, d) ==
  /\ phase = "mounted"
  /\ t # thing
  /\ IF dataset.exists THEN d = dataset ELSE d \in Datasets(t)
  /\ thing' = t
  /\ dataset' = d
  /\ focused' = (focused /\ t.exists /\ d.exists)
  /\ out' = Rendering("other", t, props.onError)
  /\ UNCHANGED <<props, text, initialValue, phase, pending>>
  /\ UNCHANGED videoVars

\* React removes the component, and its useState cells with it; the promises
\* of its saveSolidDatasetAt calls stay in flight.
Unmount ==
  /\ phase = "mounted"
  /\ phase' = "unmounted"
  /\ focused' = FALSE
  /\ text' = NULL
  /\ initialValue' = NULL
  /\ out' = Quiet("other")
  /\ UNCHANGED <<props, thing, dataset, pending>>
  /\ UNCHANGED videoVars

----------------------------------------------------------------------------
(* The component after its first render and effects *)

Props ==
  [edit : BOOLEAN, autosave : BOOLEAN, saveDatasetTo : {NoUrl, "dest"},
   locale : {NoLocale, "en"}, onSave : BOOLEAN, onError : BOOLEAN]

\* No Text component is in the tree.
TextOff ==
  /\ props = [edit |-> FALSE, autosave |-> FALSE, saveDatasetTo |-> NoUrl,
              locale |-> NoLocale, onSave |-> FALSE, onError |-> FALSE]
  /\ thing = NoThing
  /\ dataset = NoDataset
  /\ text = NULL
  /\ initialValue = NULL
  /\ phase = "unmounted"
  /\ focused = FALSE
  /\ pending = <<>>
  /\ out = Quiet("other")

TextInit ==
  /\ props \in Props
  /\ thing \in Things(props.locale)
  /\ dataset \in Datasets(thing)
  /\ text = Getter(thing, props.locale)
  /\ initialValue = Getter(thing, props.locale)
  /\ phase = "mounted"
  /\ focused = FALSE
  /\ pending = <<>>
  /\ out = Rendering("other", thing, props.onError)

Next ==
  \/ Focus
  \/ \E v \in Strings : Change(v)
  \/ Blur
  \/ \E i \in 1..MaxPending : Resolve(i)
  \/ \E i \in 1..MaxPending : Reject(i)
  \/ ToggleEdit
  \/ \E t \in Things(props.locale) :
       \E d \in Datasets(t) \cup {dataset} : Rerender(t, d)
  \/ Unmount

----------------------------------------------------------------------------
(* The Video component: a file field. On a change of its file input it      *)
(* overwrites the file at the property's url and previews the new file.     *)

NoFile == [name |-> NULL, size |-> NULL]

\* The files a user can select.
Files == [name : 1..MaxVal, size : 0..MaxFileSize]

\* The object urls the video element can show: the one made of the file
\* fetched from the property's url, and the one made of a selected file.
FetchedUrl == 0

ObjectUrl(file) == file.name

VCall(fn, file) == [fn |-> fn, file |-> file]

\* What an event did: its calls, and the file selected if it was a change.
VQuiet(kind) == [kind |-> kind, file |-> NoFile, calls |-> <<>>]

\* ExceedsMaxSize testing maxSize for truthiness: a maximum of 0 is ignored.
ExceedsMaxSizeFalsy(file, maxSize) ==
  maxSize # NULL /\ maxSize # 0 /\ file.size > maxSize

\* A file exceeding the configured maximum must not trigger a write.
ExceedsMaxSize(file, maxSize) == maxSize # NULL /\ file.size > maxSize

\* handleChange without its test of autosave.
handleChangeAlways(file) ==
  IF vvalue # NULL /\ ~ExceedsMaxSize(file, vprops.maxSize)
  THEN [VQuiet("change") EXCEPT !.file = file,
                                !.calls = <<VCall("overwriteFile", file)>>]
  ELSE [VQuiet("change") EXCEPT !.file = file]

\* The file input's change handler up to its await: with autosave and a file
\* within the size constraint, the save step at once; else nothing.
handleChange(file) ==
  IF vprops.autosave /\ vvalue # NULL /\ ~ExceedsMaxSize(file, vprops.maxSize)
  THEN [VQuiet("change") EXCEPT !.file = file,
                                !.calls = <<VCall("overwriteFile", file)>>]
  ELSE [VQuiet("change") EXCEPT !.file = file]

\* The save step after its write succeeded, on st = [src, calls]: the success
\* callback, and the preview made of the new file.
AfterOverwrite(st, file, onSave) ==
  [src |-> ObjectUrl(file),
   calls |-> IF onSave THEN Append(st.calls, VCall("onSave", NoFile))
             ELSE st.calls]

\* CatchOverwriteError that goes on to fetch the file again.
CatchOverwriteErrorThenFetch(st, onError) ==
  [st EXCEPT !.calls = (IF onError THEN Append(@, VCall("onError", NoFile))
                        ELSE @) \o <<VCall("getFile", NoFile)>>]

\* The save step after its write failed: the error callback, nothing else.
CatchOverwriteError(st, onError) ==
  [st EXCEPT !.calls = IF onError THEN Append(@, VCall("onError", NoFile))
                       ELSE @]

\* The video and, in edit mode, the file input are rendered for a resolved url.
VideoRendered == vvalue # NULL

InputRendered == vprops.edit /\ vvalue # NULL

VChange(file) ==
  /\ InputRendered
  /\ LET did == handleChange(file)
         files == [k \in 1..Len(did.calls) |-> did.calls[k].file]
     IN  /\ Len(vpending) + Len(files) <= MaxPending
         /\ vout' = did
         /\ vpending' = vpending \o files
  /\ UNCHANGED <<vprops, vvalue, vload, vsrc>>
  /\ UNCHANGED textVars

\* The first getFile is fulfilled: the video shows the fetched file.
VLoaded ==
  /\ vload = "loading"
  /\ vload' = "loaded"
  /\ vsrc' = FetchedUrl
  /\ vout' = VQuiet("loaded")
  /\ UNCHANGED <<vprops, vvalue, vpending>>
  /\ UNCHANGED textVars

\* The first getFile is rejected: the error callback.
VLoadFailed ==
  /\ vload = "loading"
  /\ vload' = "failed"
  /\ vout' = CatchOverwriteError(VQuiet("load failed"), vprops.onError)
  /\ UNCHANGED <<vprops, vvalue, vsrc, vpending>>
  /\ UNCHANGED textVars

\* The i-th overwriteFile call in flight is fulfilled.
VResolve(i) ==
  /\ i \in 1..Len(vpending)
  /\ LET st == AfterOverwrite([src |-> vsrc, calls |-> <<>>], vpending[i],
                              vprops.onSave)
     IN  /\ vsrc' = st.src
         /\ vout' = [VQuiet("resolved") EXCEPT !.calls = st.calls]
  /\ vpending' = Without(vpending, i)
  /\ UNCHANGED <<vprops, vvalue, vload>>
  /\ UNCHANGED textVars

\* The i-th overwriteFile call in flight is rejected.
VReject(i) ==
  /\ i \in 1..Len(vpending)
  /\ LET st == CatchOverwriteError([src |-> vsrc, calls |-> <<>>],
                                   vprops.onError)
     IN  /\ vsrc' = st.src
         /\ vout' = [VQuiet("rejected") EXCEPT !.calls = st.calls]
  /\ vpending' = Without(vpending, i)
  /\ UNCHANGED <<vprops, vvalue, vload>>
  /\ UNCHANGED textVars

VProps ==
  [edit : BOOLEAN, autosave : BOOLEAN, maxSize : {NULL} \cup (0..MaxFileSize),
   onSave : BOOLEAN, onError : BOOLEAN]

\* The component after its first render: getFile is called for a resolved url.
VideoInit ==
  /\ vprops \in VProps
  /\ vvalue \in {NULL, 1}
  /\ vload = IF vvalue # NULL THEN "loading" ELSE "none"
  /\ vsrc = NULL
  /\ vpending = <<>>
  /\ vout = IF vvalue # NULL
            THEN [VQuiet("mount") EXCEPT !.calls = <<VCall("getFile", NoFile)>>]
            ELSE VQuiet("mount")

\* No Video component is in the tree.
VideoOff ==
  /\ vprops = [edit |-> FALSE, autosave |-> FALSE, maxSize |-> NULL,
               onSave |-> FALSE, onError |-> FALSE]
  /\ vvalue = NULL
  /\ vload = "none"
  /\ vsrc = NULL
  /\ vpending = <<>>
  /\ vout = VQuiet("mount")

VideoNext ==
  \/ \E file \in Files : VChange(file)
  \/ VLoaded
  \/ VLoadFailed
  \/ \E i \in 1..MaxPending : VResolve(i)
  \/ \E i \in 1..MaxPending : VReject(i)

----------------------------------------------------------------------------
(* Specifications: one component in the tree at a time *)

Init == TextInit /\ VideoOff

Spec == Init /\ [][Next]_vars

VideoStart == VideoInit /\ TextOff

VideoSpec == VideoStart /\ [][VideoNext]_vars

----------------------------------------------------------------------------
(* Properties of the Text component, checked under Spec *)

\* e.target.value as the input would show v: v || "".
Shown(v) == IF v = NULL THEN 0 ELSE v

WriterCalls(calls) == CallsOf(calls, "saveSolidDatasetAt")

\* The step is a blur of the rendered input. The handler sees the unprimed state.
BlurStep == out'.kind = "blur" /\ Rendered.kind = "input"

\* saveDatasetTo is given, or the dataset has a source url.
HasDestination == props.saveDatasetTo # NoUrl \/ HasResourceInfo(dataset)

\* C1: a blur at which the input's value equals initialValue, the value
\* snapshotted by the last focus, makes no saveSolidDatasetAt call, with or
\* without autosave and whatever came before.
C1_UnchangedBlurNeverWrites ==
  [][(BlurStep /\ InputValue = initialValue)
       => (WriterCalls(out'.calls) = <<>> /\ pending' = pending)]_vars

\* An autosave blur that wrote nothing, of a field edited since mount and
\* focused since the edit.
C1_Witness ==
  /\ out.kind = "blur" /\ out.calls = <<>> /\ Rendered.kind = "input"
  /\ props.autosave /\ HasDestination
  /\ InputValue = initialValue
  /\ InputValue # Shown(Value)

\* C2 (as claimed): every autosave blur with a value other than initialValue
\* makes exactly one saveSolidDatasetAt call.
C2_Original ==
  [][(BlurStep /\ props.autosave /\ InputValue # initialValue)
       => Len(WriterCalls(out'.calls)) = 1]_vars

\* C2 (amended): every autosave blur with a value other than initialValue, when
\* a destination exists, makes exactly one saveSolidDatasetAt call and leaves
\* the dataset and the text as they are; and whenever an event of the component
\* replaces the dataset, it is the fulfilment of a call made by an earlier blur.
C2_OneWriteBeforeAnyUpdate ==
  [][/\ (BlurStep /\ props.autosave /\ InputValue # initialValue
           /\ HasDestination)
          => /\ Len(WriterCalls(out'.calls)) = 1
             /\ Len(pending') = Len(pending) + 1
             /\ pending'[Len(pending')].ds = out'.calls[1].ds
             /\ dataset' = dataset
             /\ text' = text
     /\ (dataset' # dataset /\ out'.kind # "other")
          => /\ out'.kind = "resolved"
             /\ \E i \in 1..Len(pending) :
                  /\ pending' = Without(pending, i)
                  /\ dataset' = SavedDataset(pending[i].url, pending[i].ds)
    ]_vars

\* An autosave blur has just made its one call, a second one in flight.
C2_Witness ==
  /\ out.kind = "blur" /\ props.autosave
  /\ Len(WriterCalls(out.calls)) = 1
  /\ Len(pending) = 2
  /\ dataset.exists /\ dataset.val # pending[2].ds.val

C4_Original ==
  (out.kind = "resolved" /\ Rendered.kind \in {"input", "span"})
    => /\ Len(out.calls) = IF props.onSave THEN 2 ELSE 1
       /\ out.calls[1] = SetDatasetCall(dataset)
       /\ props.onSave => out.calls[2].fn = "onSave" /\ out.calls[2].ds = dataset
       /\ Shown(text) = dataset.val

\* C4 (amended): a fulfilled write calls setDataset with the dataset the writer
\* returned and then, when supplied, onSave exactly once with that dataset and
\* the updated thing, which carries the value written; the text is left as it
\* is (it is the value written unless a change event came after the blur).
C4_FulfilledWriteCallsOnSaveOnce ==
  [][out'.kind = "resolved"
       => \E i \in 1..Len(pending) :
            LET r == pending[i]
                saved == SavedDataset(r.url, r.ds)
            IN  /\ pending' = Without(pending, i)
                /\ dataset' = saved
                /\ saved.src = r.url /\ saved.val = r.updated.val
                /\ out'.calls =
                     <<SetDatasetCall(saved)>> \o
                     (IF props.onSave THEN <<OnSaveCall(saved, r.updated)>>
                      ELSE <<>>)
                /\ text' = text]_vars

\* A write was fulfilled, onSave called, and the field shows the value written.
C4_Witness ==
  /\ out.kind = "resolved" /\ props.onSave /\ Len(out.calls) = 2
  /\ Rendered.kind = "input"
  /\ Shown(text) = dataset.val
  /\ out.calls[2].thing.val = Shown(text)

\* The step is an autosave blur that passes saveHandler's guard and finds no
\* destination to save to.
BlurWithoutDestination ==
  /\ BlurStep /\ props.autosave /\ InputValue # initialValue
  /\ ~HasDestination

\* C5 (as claimed): a save attempted without destination makes no writer call
\* and is reported to onError when supplied, not thrown into the view.
C5_Original ==
  [][BlurWithoutDestination
       => /\ WriterCalls(out'.calls) = <<>>
          /\ ~out'.threw
          /\ props.onError => Len(CallsOf(out'.calls, "onError")) = 1]_vars

\* C5 (amended): a save attempted without destination makes no writer call,
\* and the error is thrown into the surrounding view by the next render;
\* onError is not called, supplied or not.
C5_NoDestinationThrowsIntoView ==
  [][BlurWithoutDestination
       => /\ WriterCalls(out'.calls) = <<>>
          /\ pending' = pending
          /\ out'.threw
          /\ phase' = "crashed"
          /\ CallsOf(out'.calls, "onError") = <<>>]_vars

\* A blur has thrown although onError was supplied.
C5_Witness ==
  /\ out.kind = "blur" /\ out.threw /\ phase = "crashed"
  /\ props.onError /\ props.autosave
  /\ props.saveDatasetTo = NoUrl /\ ~HasResourceInfo(dataset)

\* C6: with edit false and the data resolved, the content rendered is the
\* value the property resolves to.
C6_Original == Rendered.kind = "span" => Rendered.content = Value

\* C7: without autosave no focus, change or blur makes any call (writer,
\* onSave, onError) or throws, and no write is ever in flight.
C7_NoAutosaveNoCalls ==
  ~props.autosave
    => /\ pending = <<>>
       /\ out.kind \in {"focus", "change", "blur"}
            => out.calls = <<>> /\ ~out.threw
       /\ out.kind \notin {"resolved", "rejected"}

\* A blur with a changed value and a destination, and no autosave.
C7_Witness ==
  /\ ~props.autosave /\ out.kind = "blur" /\ Rendered.kind = "input"
  /\ InputValue # initialValue
  /\ HasDestination

\* C8: while the thing or the dataset is missing the placeholder is rendered,
\* nothing is thrown and the last event made no writer call.
C8_Original ==
  (phase = "mounted" /\ (~thing.exists \/ ~dataset.exists))
    => /\ Rendered.kind = "placeholder"
       /\ ~out.threw
       /\ WriterCalls(out.calls) = <<>>

----------------------------------------------------------------------------
(* Properties of the Video component, checked under VideoSpec *)

OverwriteCalls(calls) == SelectSeq(calls, LAMBDA c : c.fn = "overwriteFile")

\* C9: without autosave a change of the file input calls nothing, no
\* overwriteFile is ever in flight, and the video never shows the object url
\* of a selected file.
C9_NoAutosaveNoOverwrite ==
  ~vprops.autosave
    => /\ vout.kind = "change" => vout.calls = <<>>
       /\ vpending = <<>>
       /\ vsrc \in {NULL, FetchedUrl}

\* A file was selected without autosave while the fetched video was shown.
C9_Witness ==
  /\ ~vprops.autosave /\ vout.kind = "change" /\ vout.file \in Files
  /\ vsrc = FetchedUrl

\* C10: with autosave, a change with a file larger than maxSize (0 included)
\* calls overwriteFile not at all, and a change with a file within the limit,
\* or with no limit set, calls it exactly once, with that file.
C10_MaxSizeGuardsOverwrite ==
  (vout.kind = "change" /\ vprops.autosave)
    => IF vprops.maxSize # NULL /\ vout.file.size > vprops.maxSize
       THEN OverwriteCalls(vout.calls) = <<>>
       ELSE vout.calls = <<VCall("overwriteFile", vout.file)>>

\* A file larger than a maxSize of 0 was selected and not written, the write
\* of an earlier file within the limit being in flight.
C10_Witness ==
  /\ vout.kind = "change" /\ vprops.autosave /\ vprops.maxSize = 0
  /\ vout.file.size > 0 /\ vout.calls = <<>>
  /\ Len(vpending) = 1 /\ vpending[1].size = 0

\* C11: a rejected overwriteFile calls onError when it is supplied and
\* nothing else (no getFile, no onSave), and leaves the src of the video as it
\* was; getFile is called by the first render only.
C11_FailedOverwriteKeepsSource ==
  [][/\ vout'.kind = "rejected"
          => /\ vout'.calls = IF vprops.onError
                              THEN <<VCall("onError", NoFile)>> ELSE <<>>
             /\ vsrc' = vsrc
             /\ \E i \in 1..Len(vpending) : vpending' = Without(vpending, i)
     /\ SelectSeq(vout'.calls, LAMBDA c : c.fn = "getFile") = <<>>]_vars

\* An overwriteFile was rejected and onError called while the video shows the
\* file of an earlier, fulfilled overwriteFile.
C11_Witness ==
  /\ vout.kind = "rejected" /\ vprops.autosave /\ vprops.onError
  /\ vout.calls = <<VCall("onError", NoFile)>>
  /\ vsrc \notin {NULL, FetchedUrl}

----------------------------------------------------------------------------
(* Further properties of the Text component, checked under Spec *)

\* C12: a change event sets the text to a value of the input and nothing
\* else: the dataset, the thing, initialValue and the writes in flight stay as
\* they are, and it calls neither the writer nor onSave nor onError.
C12_ChangeSetsTextOnly ==
  [][out'.kind = "change"
       => /\ text' \in Strings
          /\ dataset' = dataset /\ thing' = thing
          /\ initialValue' = initialValue
          /\ pending' = pending
          /\ out'.calls = <<>> /\ ~out'.threw
          /\ phase' = phase]_vars

\* A change has set a text other than the snapshot and the resolved value,
\* with autosave on and a write in flight.
C12_Witness ==
  /\ out.kind = "change" /\ props.autosave /\ props.onSave /\ props.onError
  /\ Shown(text) # Shown(initialValue)
  /\ Shown(text) # Shown(Value)
  /\ Len(pending) = 1

\* C13: a rejected write calls neither setDataset nor the writer and leaves
\* the dataset as it was; and a step that calls the writer is a blur, which
\* calls it at most once and puts exactly that call in flight, so that the
\* writer calls of an execution are at most as many as its blur events.
C13_NoRetryAfterRejection ==
  [][/\ out'.kind = "rejected"
          => /\ dataset' = dataset
             /\ CallsOf(out'.calls, "setDataset") = <<>>
             /\ WriterCalls(out'.calls) = <<>>
             /\ Len(pending') = Len(pending) - 1
     /\ (WriterCalls(out'.calls) # <<>> \/ Len(pending') > Len(pending))
          => /\ out'.kind = "blur"
             /\ Len(WriterCalls(out'.calls)) = 1
             /\ Len(pending') = Len(pending) + 1]_vars

\* The only write was rejected: none is in flight, the dataset holds the old
\* value and the field the edited text.
C13_Witness ==
  /\ out.kind = "rejected" /\ pending = <<>>
  /\ Rendered.kind = "input" /\ ~focused
  /\ dataset.val = Value
  /\ Shown(text) # Shown(dataset.val)

\* C14: a focus event snapshots, as initialValue, the value last committed
\* for the property (the value resolved from the thing, or the one held by the
\* dataset), the edit having been discarded when the save attempt completed;
\* stated for the focus that follows a rejected write.
C14_Original ==
  [][(out.kind = "rejected" /\ out'.kind = "focus")
       => initialValue' \in {Shown(Value), Shown(dataset.val)}]_vars

\* C15: an autosave blur with a changed value, fired while earlier writes are
\* in flight, issues one more write, built from the dataset as it is then, the
\* earlier ones staying in flight; and whichever write in flight is fulfilled,
\* first or last issued, its result replaces the dataset.
C15_OverlappingSavesLastCompletedWins ==
  [][/\ (BlurStep /\ props.autosave /\ InputValue # initialValue
           /\ HasDestination /\ pending # <<>>)
          => /\ Len(pending') = Len(pending) + 1
             /\ SubSeq(pending', 1, Len(pending)) = pending
             /\ pending'[Len(pending')].ds
                  = SetThing(dataset, Updated(InputValue))
             /\ pending'[Len(pending')].ds.src = pending[Len(pending)].ds.src
                  \/ dataset.src # pending[Len(pending)].ds.src
     /\ out'.kind = "resolved"
          => \A i \in 1..Len(pending) :
               pending' = Without(pending, i)
                 => dataset' \in {SavedDataset(pending[j].url, pending[j].ds) :
                                    j \in {k \in 1..Len(pending) :
                                             pending[k] = pending[i]}}
    ]_vars

\* Of two writes in flight at once the later issued has been fulfilled and the
\* dataset holds its value; the earlier one, with another value, is still in
\* flight and will replace it.
C15_Witness ==
  /\ out.kind = "resolved" /\ Len(pending) = 1 /\ phase = "mounted"
  /\ dataset.val # pending[1].ds.val
  /\ dataset.val = Shown(text)
  /\ ~focused

\* C16: after an unmount the fulfilment or rejection of a write in flight
\* calls nothing (no setDataset, no onSave, no onError) and changes nothing.
C16_Original ==
  [][(phase = "unmounted" /\ out'.kind \in {"resolved", "rejected"})
       => (out'.calls = <<>> /\ dataset' = dataset)]_vars

\* C17: onSave is called only by the fulfilment of a writer call, and with the
\* dataset that call returned.
C17_Original ==
  \A k \in 1..Len(out.calls) :
    out.calls[k].fn = "onSave"
      => /\ out.kind = "resolved"
         /\ out.calls[k].ds.exists
         /\ HasResourceInfo(out.calls[k].ds)

=============================================================================
